---- MODULE Spec2Model ----
(***************************************************************************)
(* A model of runGraph.py: the KnowledgeGraph fact store (a networkx       *)
(* DiGraph with one 'relation' attribute per edge), the SKU loader, the    *)
(* JSON query adapter and main.                                            *)
(*                                                                         *)
(* Python values are records [t |-> type name, v |-> str(value)]; for a    *)
(* str the field v is the string itself.                                   *)
(***************************************************************************)
EXTENDS Naturals, Sequences, FiniteSets, TLC

\* graph:  self.graph of the KnowledgeGraph
\* added:  the triples passed to add_fact so far, in call order
\* pc:     where main stands: "load", "display", "dispatch", "loop", "done",
\*         "crashed" (an uncaught exception of os.listdir, input, json.dumps
\*         or process_query_json); "api" when the store is used directly
\* args:   the parsed command-line options
\* nread:  how many directory entries and lines the loader has consumed
\* output: what the last display_facts, json.dumps or process_query_json
\*         call returned or raised
VARIABLES graph, added, pc, args, nread, output

vars == <<graph, added, pc, args, nread, output>>

\* ------------------------------------------------------------------ bounds
MaxFacts == 3
MaxLines == 2

\* ------------------------------------------------------------ Python values
PyStr(x) == [t |-> "str", v |-> x]
PyInt(x) == [t |-> "int", v |-> x]
PyBytes(x) == [t |-> "bytes", v |-> x]
PyList(x) == [t |-> "list", v |-> x]
PyNone == [t |-> "NoneType", v |-> "None"]

\* str(x), as the f-string of display_facts formats a value.
py_str(x) == x.v

\* bool(x): the truth value `not x` and `x or y` test.
truthy(x) ==
    CASE x.t = "NoneType" -> FALSE
      [] x.t = "str" -> x.v # ""
      [] x.t = "bytes" -> x.v # "b''"
      [] x.t = "int" -> x.v # "0"
      [] x.t = "list" -> x.v # "[]"
      [] OTHER -> TRUE

\* hash(x) succeeds: lists are unhashable.
hashable(x) == x.t # "list"

\* ------------------------------------------------------- sequence helpers
Range(s) == {s[i] : i \in 1..Len(s)}

RECURSIVE Concat(_)
Concat(ss) == IF ss = <<>> THEN <<>> ELSE Head(ss) \o Concat(Tail(ss))

\* --------------------------------------------------------- networkx.DiGraph
\* node: the keys of _node in insertion order; succ / pred: for each node the
\* keys of _succ[n] / _pred[n] in insertion order; data: the attribute dict
\* shared by _succ[u][v] and _pred[v][u].
EmptyGraph == [node |-> <<>>, succ |-> <<>>, pred |-> <<>>, data |-> <<>>]

\* `n in G`: a TypeError of hash(n) is caught and answered False.
contains(g, n) == hashable(n) /\ n \in Range(g.node)

\* The exception add_node raises for n ("none" when it raises none).
add_node_error(n) ==
    IF ~hashable(n) THEN "TypeError"
    ELSE IF n = PyNone THEN "ValueError"
    ELSE "none"

add_node(g, n) ==
    IF n \in Range(g.node) THEN g
    ELSE [node |-> Append(g.node, n),
          succ |-> g.succ @@ (n :> <<>>),
          pred |-> g.pred @@ (n :> <<>>),
          data |-> g.data]

\* add_edge keeps the first relation of an edge that exists already.
add_edge_keep_first(g0, u, v, relation) ==
    LET g == add_node(add_node(g0, u), v)
        e == <<u, v>>
    IN  [node |-> g.node,
         succ |-> IF v \in Range(g.succ[u]) THEN g.succ
                  ELSE [g.succ EXCEPT ![u] = Append(@, v)],
         pred |-> IF u \in Range(g.pred[v]) THEN g.pred
                  ELSE [g.pred EXCEPT ![v] = Append(@, u)],
         data |-> IF e \in DOMAIN g.data THEN g.data
                  ELSE g.data @@ (e :> [relation |-> relation])]

\* G.add_edge(u, v, relation=relation): the edge's attribute dict is created
\* on first use and updated otherwise; a key that exists keeps its place.
add_edge(g0, u, v, relation) ==
    LET g == add_node(add_node(g0, u), v)
        e == <<u, v>>
    IN  [node |-> g.node,
         succ |-> IF v \in Range(g.succ[u]) THEN g.succ
                  ELSE [g.succ EXCEPT ![u] = Append(@, v)],
         pred |-> IF u \in Range(g.pred[v]) THEN g.pred
                  ELSE [g.pred EXCEPT ![v] = Append(@, u)],
         data |-> IF e \in DOMAIN g.data
                  THEN [g.data EXCEPT ![e] = [relation |-> relation]]
                  ELSE g.data @@ (e :> [relation |-> relation])]

\* G.out_edges(n, data=True), G.in_edges(n, data=True), G.edges(data=True)
out_edges(g, n) ==
    [i \in 1..Len(g.succ[n]) |-> <<n, g.succ[n][i], g.data[<<n, g.succ[n][i]>>]>>]

in_edges(g, n) ==
    [i \in 1..Len(g.pred[n]) |-> <<g.pred[n][i], n, g.data[<<g.pred[n][i], n>>]>>]

edges(g) == Concat([i \in 1..Len(g.node) |-> out_edges(g, g.node[i])])

\* ----------------------------------------------------------- KnowledgeGraph
\* add_fact: the store after the call and the exception it raised; a failing
\* add_node(obj) leaves the subject's node behind.
add_fact(g, subject, relation, obj) ==
    IF add_node_error(subject) # "none"
    THEN [graph |-> g, raised |-> add_node_error(subject)]
    ELSE IF add_node_error(obj) # "none"
    THEN [graph |-> add_node(g, subject), raised |-> add_node_error(obj)]
    ELSE [graph |-> add_edge(add_node(add_node(g, subject), obj), subject, obj, relation),
          raised |-> "none"]

Matching(es, relation) == SelectSeq(es, LAMBDA e : e[3].relation = relation)

\* query_fact that filters every edge of the graph by relation only.
query_fact_any_subject(g, subject, relation) ==
    LET es == Matching(edges(g), relation)
    IN  [i \in 1..Len(es) |-> es[i][2]]

query_fact(g, subject, relation) ==
    IF ~contains(g, subject) THEN <<>>
    ELSE LET es == Matching(out_edges(g, subject), relation)
         IN  [i \in 1..Len(es) |-> es[i][2]]

query_fact_reverse(g, obj, relation) ==
    IF ~contains(g, obj) THEN <<>>
    ELSE LET es == Matching(in_edges(g, obj), relation)
         IN  [i \in 1..Len(es) |-> es[i][1]]

FactLine(subject, rel, obj) == py_str(subject) \o " " \o py_str(rel) \o " " \o py_str(obj)

\* display_facts that lists the edges in reverse.
display_facts_reversed(g) ==
    LET es == edges(g)
    IN  [i \in 1..Len(es) |->
            FactLine(es[Len(es) + 1 - i][1], es[Len(es) + 1 - i][3].relation, es[Len(es) + 1 - i][2])]

display_facts(g) ==
    LET es == edges(g)
    IN  [i \in 1..Len(es) |-> FactLine(es[i][1], es[i][3].relation, es[i][2])]

\* ------------------------------------------------- the store used directly
\* A client that calls add_fact with any well-formed triple.
Nodes == {PyStr("A"), PyStr("B"), PyStr("C")}
Relations == {PyStr("t"), PyStr("u")}

NoArgs == [subject |-> PyNone, object |-> PyNone, relation |-> PyNone]
NoOutput == [op |-> "none", raised |-> FALSE, value |-> <<>>]

Init ==
    /\ graph = EmptyGraph
    /\ added = <<>>
    /\ pc = "api"
    /\ args = NoArgs
    /\ nread = 0
    /\ output = NoOutput

AddFact ==
    /\ pc = "api"
    /\ Len(added) < MaxFacts
    /\ \E s \in Nodes, r \in Relations, o \in Nodes :
        /\ graph' = add_fact(graph, s, r, o).graph
        /\ added' = Append(added, <<s, r, o>>)
    /\ UNCHANGED <<pc, args, nread, output>>

Next == AddFact

Spec == Init /\ [][Next]_vars

\* --------------------------------------------- what the add_fact calls were
\* added is the sequence of triples passed to add_fact so far.
Min(S) == CHOOSE x \in S : \A y \in S : x <= y
Max(S) == CHOOSE x \in S : \A y \in S : x >= y

Count(s, x) == Cardinality({i \in 1..Len(s) : s[i] = x})

AddedPairs == {<<added[i][1], added[i][3]>> : i \in 1..Len(added)}
AddedNodes == {added[i][1] : i \in 1..Len(added)} \cup {added[i][3] : i \in 1..Len(added)}

\* The relation of the latest add_fact(s, _, o).
LatestRelation(s, o) ==
    added[Max({i \in 1..Len(added) : added[i][1] = s /\ added[i][3] = o})][2]

\* The first add_fact(s, _, o), and the first add_fact(s, r, o).
PairFirst(s, o) == Min({i \in 1..Len(added) : added[i][1] = s /\ added[i][3] = o})
FirstMatch(s, r, o) == Min({i \in 1..Len(added) : added[i] = <<s, r, o>>})

\* When n first appeared in an add_fact call; the subject of a call comes
\* before its object.
FirstSeen(n) ==
    Min({2 * i : i \in {j \in 1..Len(added) : added[j][1] = n}}
        \cup {2 * i + 1 : i \in {j \in 1..Len(added) : added[j][3] = n}})

NoPairAddedTwice ==
    \A i, j \in 1..Len(added) :
        (added[i][1] = added[j][1] /\ added[i][3] = added[j][3]) => i = j

\* Values a query may be asked about besides the nodes of Nodes.
Probes == Nodes \cup {PyStr(""), PyNone, PyList("[1]"), PyInt("1")}

\* ------------------------------------------------------------------ claims
\* C1: every fact (s, r, o) passed to add_fact is found by both queries:
\* query_fact(s, r) contains o and query_fact_reverse(o, r) contains s.
C1_AddedFactsAreQueryable ==
    \A i \in 1..Len(added) :
        /\ added[i][3] \in Range(query_fact(graph, added[i][1], added[i][2]))
        /\ added[i][1] \in Range(query_fact_reverse(graph, added[i][3], added[i][2]))

\* C2: query_fact(s, r) is exactly the multiset of objects o with (s, r, o)
\* added: each o appears once per add_fact(s, r, o) call.
C2_QueryIsMultisetOfAdded ==
    \A s \in Nodes, r \in Relations, o \in Nodes :
        Count(query_fact(graph, s, r), o)
            = Cardinality({i \in 1..Len(added) : added[i] = <<s, r, o>>})

\* C3: display_facts has as many entries as add_fact was called.
C3_DisplayCountsEveryAdd == Len(display_facts(graph)) = Len(added)

\* C4 as stated: display_facts lists the facts in insertion order. It is
\* stated for the runs in which no (subject, object) pair is added twice, where
\* every added fact is stored and has one time of insertion.
C4_DisplayInInsertionOrder ==
    NoPairAddedTwice =>
        display_facts(graph)
            = [i \in 1..Len(added) |-> FactLine(added[i][1], added[i][2], added[i][3])]

\* The place of the pair (s, o) when the pairs are ordered by the first
\* appearance of the subject as a node and then by the first add of the pair.
DisplayRank(s, o) ==
    1 + Cardinality({q \in AddedPairs :
            \/ FirstSeen(q[1]) < FirstSeen(s)
            \/ q[1] = s /\ PairFirst(q[1], q[2]) < PairFirst(s, o)})

\* C4 amended: display_facts has one line per distinct (subject, object)
\* pair added, carrying the pair's latest relation; the lines are grouped by
\* subject, subjects in the order of their first appearance as a node (as
\* subject or object), and within a subject in the order in which its pairs
\* were first added.
C4_DisplayGroupedBySubject ==
    /\ Len(display_facts(graph)) = Cardinality(AddedPairs)
    /\ \A p \in AddedPairs :
        display_facts(graph)[DisplayRank(p[1], p[2])]
            = FactLine(p[1], LatestRelation(p[1], p[2]), p[2])

\* C4 witness: three facts with distinct pairs whose display order differs
\* from their insertion order.
C4_Witness ==
    /\ Len(added) = MaxFacts
    /\ NoPairAddedTwice
    /\ \E i, j \in 1..Len(added) :
        /\ i < j
        /\ DisplayRank(added[j][1], added[j][3]) < DisplayRank(added[i][1], added[i][3])

\* C5: query_fact(s, r) lists the objects, and query_fact_reverse(o, r) the
\* subjects, in the order in which their matching facts were first added.
C5_QueryInInsertionOrder ==
    \A n \in Nodes, r \in Relations :
        LET fwd == query_fact(graph, n, r)
            rev == query_fact_reverse(graph, n, r)
        IN  /\ \A a, b \in 1..Len(fwd) :
                a < b => FirstMatch(n, r, fwd[a]) < FirstMatch(n, r, fwd[b])
            /\ \A a, b \in 1..Len(rev) :
                a < b => FirstMatch(rev[a], r, n) < FirstMatch(rev[b], r, n)

\* C6: both queries answer the empty list for a node that was never the
\* subject or object of an add_fact call, whatever the relation.
C6_UnknownNodeYieldsEmpty ==
    \A n \in Probes \ AddedNodes, r \in Relations :
        /\ query_fact(graph, n, r) = <<>>
        /\ query_fact_reverse(graph, n, r) = <<>>

\* C6 witness: a store holding both relations, and a node never added.
C6_Witness ==
    /\ Nodes \ AddedNodes # {}
    /\ \A r \in Relations : \E i \in 1..Len(added) : added[i][2] = r

\* C10: the store holds one fact per (subject, object) pair, labelled by the
\* latest add_fact of the pair: display_facts has exactly one entry per pair
\* ever added, and o is in query_fact(s, r) iff r is the pair's latest relation.
C10_OneFactPerPairLatestWins ==
    /\ Len(display_facts(graph)) = Cardinality(AddedPairs)
    /\ \A p \in AddedPairs :
        Count(display_facts(graph), FactLine(p[1], LatestRelation(p[1], p[2]), p[2])) = 1
    /\ \A s \in Nodes, o \in Nodes, r \in Relations :
        o \in Range(query_fact(graph, s, r))
            <=> (<<s, o>> \in AddedPairs /\ LatestRelation(s, o) = r)

\* C10 witness: a pair added under one relation and again under another.
C10_Witness ==
    \E i, j \in 1..Len(added) :
        /\ i < j
        /\ added[i][1] = added[j][1] /\ added[i][3] = added[j][3]
        /\ added[i][2] # added[j][2]

\* ------------------------------------------------------------ json.dumps
\* The JSON text of a value; bytes have none (json.dumps raises TypeError).
json_serializable(x) == x.t # "bytes"

json_value(x) ==
    CASE x.t = "str" -> "\"" \o x.v \o "\""
      [] x.t = "NoneType" -> "null"
      [] OTHER -> x.v

RECURSIVE json_items(_)
json_items(xs) ==
    IF xs = <<>> THEN ""
    ELSE IF Len(xs) = 1 THEN json_value(xs[1])
    ELSE json_value(xs[1]) \o ", " \o json_items(Tail(xs))

json_list(xs) == "[" \o json_items(xs) \o "]"

Returned(op, text) == [op |-> op, raised |-> FALSE, value |-> <<text>>]
Raised(op, exception) == [op |-> op, raised |-> TRUE, value |-> <<exception>>]

\* json.dumps({"response": results})
dumps_response(op, results) ==
    IF \E i \in 1..Len(results) : ~json_serializable(results[i])
    THEN Raised(op, "TypeError")
    ELSE Returned(op, "{\"response\": " \o json_list(results) \o "}")

dumps_error(op, message) == Returned(op, "{\"error\": \"" \o message \o "\"}")

\* ------------------------------------------------------------ json.loads
\* The decoded payload: a JSONDecodeError with its message, or a value of
\* the given type; of a dict, what .get answers for the keys the adapter reads
\* (None for a key that is absent).
Decoded(type, queryType, subject, object, relation) ==
    [raised |-> FALSE, details |-> "", type |-> type,
     get |-> [queryType |-> queryType, subject |-> subject,
              object |-> object, relation |-> relation]]
DecodeError(details) ==
    [raised |-> TRUE, details |-> details, type |-> "NoneType",
     get |-> [queryType |-> PyNone, subject |-> PyNone,
              object |-> PyNone, relation |-> PyNone]]

QueryInputs ==
    {"{\"queryType\": \"retrieve_fact\", \"subject\": \"A\", \"relation\": \"t\"}",
     "{\"queryType\": \"retrieve_fact_reverse\", \"object\": \"B\", \"relation\": \"t\"}",
     "{\"queryType\": \"retrieve_fact\", \"subject\": \"A\"}",
     "{\"queryType\": \"retrieve_fact_reverse\", \"relation\": \"t\"}",
     "{\"queryType\": \"retrieve_fact\", \"subject\": [1], \"relation\": \"t\"}",
     "{\"queryType\": \"delete_fact\"}",
     "{\"queryType\": \"retrieve_fact\"",
     "{}", "[]", "42", "null", ""}

json_loads(s) ==
    CASE s = "{\"queryType\": \"retrieve_fact\", \"subject\": \"A\", \"relation\": \"t\"}"
            -> Decoded("dict", PyStr("retrieve_fact"), PyStr("A"), PyNone, PyStr("t"))
      [] s = "{\"queryType\": \"retrieve_fact_reverse\", \"object\": \"B\", \"relation\": \"t\"}"
            -> Decoded("dict", PyStr("retrieve_fact_reverse"), PyNone, PyStr("B"), PyStr("t"))
      [] s = "{\"queryType\": \"retrieve_fact\", \"subject\": \"A\"}"
            -> Decoded("dict", PyStr("retrieve_fact"), PyStr("A"), PyNone, PyNone)
      [] s = "{\"queryType\": \"retrieve_fact_reverse\", \"relation\": \"t\"}"
            -> Decoded("dict", PyStr("retrieve_fact_reverse"), PyNone, PyNone, PyStr("t"))
      [] s = "{\"queryType\": \"retrieve_fact\", \"subject\": [1], \"relation\": \"t\"}"
            -> Decoded("dict", PyStr("retrieve_fact"), PyList("[1]"), PyNone, PyStr("t"))
      [] s = "{\"queryType\": \"delete_fact\"}"
            -> Decoded("dict", PyStr("delete_fact"), PyNone, PyNone, PyNone)
      [] s = "{}" -> Decoded("dict", PyNone, PyNone, PyNone, PyNone)
      [] s = "[]" -> Decoded("list", PyNone, PyNone, PyNone, PyNone)
      [] s = "42" -> Decoded("int", PyNone, PyNone, PyNone, PyNone)
      [] s = "null" -> Decoded("NoneType", PyNone, PyNone, PyNone, PyNone)
      [] s = "{\"queryType\": \"retrieve_fact\""
            -> DecodeError("Expecting ',' delimiter: line 1 column 30 (char 29)")
      [] OTHER -> DecodeError("Expecting value: line 1 column 1 (char 0)")

\* ---------------------------------------------------- process_query_json
process_query_json(query_json_str, g) ==
    LET op == "process_query_json"
        query == json_loads(query_json_str)
        query_type == query.get.queryType
        relation == query.get.relation
    IN  IF query.raised
        THEN Returned(op, "{\"error\": \"Invalid JSON input.\", \"details\": \""
                            \o query.details \o "\"}")
        ELSE IF query.type # "dict"
        THEN Raised(op, "AttributeError")
        ELSE IF query_type = PyStr("retrieve_fact")
        THEN IF ~truthy(query.get.subject) \/ ~truthy(relation)
             THEN dumps_error(op, "For a forward query, 'subject' and 'relation' are required.")
             ELSE dumps_response(op, query_fact(g, query.get.subject, relation))
        ELSE IF query_type = PyStr("retrieve_fact_reverse")
        THEN IF ~truthy(query.get.object) \/ ~truthy(relation)
             THEN dumps_error(op, "For a reverse query, 'object' and 'relation' are required.")
             ELSE dumps_response(op, query_fact_reverse(g, query.get.object, relation))
        ELSE dumps_error(op, "Unsupported queryType provided.")

\* -------------------------------------------------------- load_sku_files
\* Lines of .sku files, without their line terminator.
SkuLines ==
    {"(\"A\", \"t\", \"B\")", "(\"A\", \"u\", \"B\")", "(\"B\", \"t\", \"A\")",
     "(\"\", \"t\", \"B\")", "(\"A\", \"t\", 1)", "(\"A\", \"t\", None)",
     "(\"A\", \"t\", [1])", "(b\"x\", \"t\", \"B\")",
     "(\"A\", \"t\")", "[\"A\", \"t\", \"B\"]", "A t B", "   "}

\* line.strip()
strip(line) == IF line = "   " THEN "" ELSE line

Literal(type, items) == [raised |-> FALSE, type |-> type, items |-> items]
LiteralError == [raised |-> TRUE, type |-> "NoneType", items |-> <<>>]

\* ast.literal_eval(line): the value, or the exception of a line that is no
\* Python literal.
literal_eval(line) ==
    CASE line = "(\"A\", \"t\", \"B\")" -> Literal("tuple", <<PyStr("A"), PyStr("t"), PyStr("B")>>)
      [] line = "(\"A\", \"u\", \"B\")" -> Literal("tuple", <<PyStr("A"), PyStr("u"), PyStr("B")>>)
      [] line = "(\"B\", \"t\", \"A\")" -> Literal("tuple", <<PyStr("B"), PyStr("t"), PyStr("A")>>)
      [] line = "(\"\", \"t\", \"B\")" -> Literal("tuple", <<PyStr(""), PyStr("t"), PyStr("B")>>)
      [] line = "(\"A\", \"t\", 1)" -> Literal("tuple", <<PyStr("A"), PyStr("t"), PyInt("1")>>)
      [] line = "(\"A\", \"t\", None)" -> Literal("tuple", <<PyStr("A"), PyStr("t"), PyNone>>)
      [] line = "(\"A\", \"t\", [1])" -> Literal("tuple", <<PyStr("A"), PyStr("t"), PyList("[1]")>>)
      [] line = "(b\"x\", \"t\", \"B\")" -> Literal("tuple", <<PyBytes("b'x'"), PyStr("t"), PyStr("B")>>)
      [] line = "(\"A\", \"t\")" -> Literal("tuple", <<PyStr("A"), PyStr("t")>>)
      [] line = "[\"A\", \"t\", \"B\"]" -> Literal("list", <<PyStr("A"), PyStr("t"), PyStr("B")>>)
      [] OTHER -> LiteralError

\* One pass of the loop over the lines of a file: the store afterwards and
\* the triples handed to add_fact (none or one). An exception of
\* literal_eval or of add_fact is caught and printed.
load_line(g, raw) ==
    LET line == strip(raw)
        fact == literal_eval(line)
    IN  IF line = "" THEN [graph |-> g, passed |-> <<>>]
        ELSE IF fact.raised THEN [graph |-> g, passed |-> <<>>]
        ELSE IF fact.type = "tuple" /\ Len(fact.items) = 3
        THEN [graph |-> add_fact(g, fact.items[1], fact.items[2], fact.items[3]).graph,
              passed |-> <<fact.items>>]
        ELSE [graph |-> g, passed |-> <<>>]

\* ------------------------------------------------------------------- main
\* argparse: -subject and -object exclude each other; an option not given is None.
ArgChoices ==
    {a \in [subject : {PyNone, PyStr(""), PyStr("A")},
            object : {PyNone, PyStr("B")},
            relation : {PyNone, PyStr("t")}] :
        a.subject = PyNone \/ a.object = PyNone}

\* Inputs whose lower() is quit or exit.
QuitWords == {"quit", "EXIT"}

MainInit ==
    /\ graph = EmptyGraph
    /\ added = <<>>
    /\ pc = "load"
    /\ args \in ArgChoices
    /\ nread = 0
    /\ output = NoOutput

\* The SKUs folder does not exist: the import is skipped.
MissingFolder ==
    /\ pc = "load" /\ nread = 0
    /\ pc' = "display"
    /\ UNCHANGED <<graph, added, args, nread, output>>

\* os.listdir of a folder that exists but cannot be listed raises (OSError);
\* the call stands outside every try, so the exception ends main before
\* anything is loaded or displayed.
ListdirError ==
    /\ pc = "load" /\ nread = 0
    /\ pc' = "crashed"
    /\ UNCHANGED <<graph, added, args, nread, output>>

\* A directory entry that is no .sku file is passed over.
SkipEntry ==
    /\ pc = "load" /\ nread < MaxLines
    /\ nread' = nread + 1
    /\ UNCHANGED <<graph, added, pc, args, output>>

\* A file that cannot be read is reported and the listing goes on.
FileError ==
    /\ pc = "load" /\ nread < MaxLines
    /\ nread' = nread + 1
    /\ UNCHANGED <<graph, added, pc, args, output>>

LoadLine ==
    /\ pc = "load" /\ nread < MaxLines
    /\ \E raw \in SkuLines :
        /\ graph' = load_line(graph, raw).graph
        /\ added' = added \o load_line(graph, raw).passed
    /\ nread' = nread + 1
    /\ UNCHANGED <<pc, args, output>>

LoadDone ==
    /\ pc = "load"
    /\ pc' = "display"
    /\ UNCHANGED <<graph, added, args, nread, output>>

\* print every loaded fact
DisplayLoaded ==
    /\ pc = "display"
    /\ output' = [op |-> "display_facts", raised |-> FALSE, value |-> display_facts(graph)]
    /\ pc' = "dispatch"
    /\ UNCHANGED <<graph, added, args, nread>>

\* (args.subject or args.object) and args.relation
HasCliQuery ==
    /\ truthy(IF truthy(args.subject) THEN args.subject ELSE args.object)
    /\ truthy(args.relation)

\* json.dumps of the answer to a command-line query
dumps_cli(op, key, node, relation, results) ==
    IF \E i \in 1..Len(results) : ~json_serializable(results[i])
    THEN Raised(op, "TypeError")
    ELSE Returned(op, "{\"queryType\": \"" \o op \o "\", \"" \o key \o "\": "
                        \o json_value(node) \o ", \"relation\": " \o json_value(relation)
                        \o ", \"response\": " \o json_list(results) \o "}")

CliForward ==
    /\ pc = "dispatch" /\ HasCliQuery /\ truthy(args.subject)
    /\ output' = dumps_cli("retrieve_fact", "subject", args.subject, args.relation,
                           query_fact(graph, args.subject, args.relation))
    /\ pc' = IF output'.raised THEN "crashed" ELSE "done"
    /\ UNCHANGED <<graph, added, args, nread>>

CliReverse ==
    /\ pc = "dispatch" /\ HasCliQuery /\ ~truthy(args.subject) /\ truthy(args.object)
    /\ output' = dumps_cli("retrieve_fact_reverse", "object", args.object, args.relation,
                           query_fact_reverse(graph, args.object, args.relation))
    /\ pc' = IF output'.raised THEN "crashed" ELSE "done"
    /\ UNCHANGED <<graph, added, args, nread>>

EnterLoop ==
    /\ pc = "dispatch" /\ ~HasCliQuery
    /\ pc' = "loop"
    /\ UNCHANGED <<graph, added, args, nread, output>>

Quit ==
    /\ pc = "loop"
    /\ \E user_input \in QuitWords : pc' = "done"
    /\ UNCHANGED <<graph, added, args, nread, output>>

\* input() at the end of stdin raises EOFError, which nothing catches: main
\* ends with what was last returned left as it is.
EndOfInput ==
    /\ pc = "loop"
    /\ pc' = "crashed"
    /\ UNCHANGED <<graph, added, args, nread, output>>

\* A query of the loop that registers the node it was asked about.
InteractiveQueryTouchingStore ==
    /\ pc = "loop"
    /\ \E user_input \in QueryInputs :
        /\ output' = process_query_json(user_input, graph)
        /\ graph' = IF json_loads(user_input).get.subject.t = "str"
                    THEN add_node(graph, json_loads(user_input).get.subject)
                    ELSE graph
    /\ pc' = IF output'.raised THEN "crashed" ELSE "loop"
    /\ UNCHANGED <<added, args, nread>>

\* An exception of process_query_json is not caught: it ends the process.
InteractiveQuery ==
    /\ pc = "loop"
    /\ \E user_input \in QueryInputs : output' = process_query_json(user_input, graph)
    /\ pc' = IF output'.raised THEN "crashed" ELSE "loop"
    /\ UNCHANGED <<graph, added, args, nread>>

MainNext ==
    \/ MissingFolder
    \/ ListdirError
    \/ SkipEntry
    \/ FileError
    \/ LoadLine
    \/ LoadDone
    \/ DisplayLoaded
    \/ CliForward
    \/ CliReverse
    \/ EnterLoop
    \/ Quit
    \/ EndOfInput
    \/ InteractiveQuery

MainSpec == MainInit /\ [][MainNext]_vars

\* ------------------------------------------------------ claims about main
WellFormed(x) == x.t = "str" /\ x.v # ""

\* C7: process_query_json answers every input with a response or an error
\* and never raises, so no query ends the interactive loop (a query ends it
\* exactly when process_query_json raises; the end of stdin is no query).
C7_QueryNeverRaises ==
    output.op = "process_query_json" => ~output.raised

\* C8: the store is written during the load only: once main has left the
\* load no step (display, command-line query, interactive query, quit)
\* changes the store or calls add_fact, and the load is never entered again.
C8_StoreReadOnlyAfterLoad ==
    [][pc # "load" => (graph' = graph /\ added' = added /\ pc' # "load")]_vars

\* C8 witness: the loop has answered a query from a store that was loaded.
C8_Witness ==
    /\ pc = "loop"
    /\ added # <<>>
    /\ output = Returned("process_query_json", "{\"response\": [\"B\"]}")

\* C9: every triple load_sku_files passes to add_fact is three non-empty
\* strings, and a line with an empty or non-string field leaves the store
\* untouched, so the store's nodes and relations are non-empty strings too.
C9_LoaderPassesOnlyWellFormedTriples ==
    /\ \A i \in 1..Len(added) : \A k \in 1..3 : WellFormed(added[i][k])
    /\ \A i \in 1..Len(graph.node) : WellFormed(graph.node[i])
    /\ \A e \in DOMAIN graph.data : WellFormed(graph.data[e].relation)
====
